---------------------------- MODULE Spec2Model ----------------------------
(***************************************************************************)
(* A model of src/lib/spline.py (normflow): the construction of a          *)
(* Pade22Spline / Pade11Spline (SplineTemplate.__init__, derivative        *)
(* smoothing, AugmentKnots) and the evaluation calls forward and backward. *)
(*                                                                         *)
(* Tensors are two-dimensional, batch x knots, with the knot axis last     *)
(* (knots_axis = -1, the default): a tensor is a sequence of rows and a    *)
(* row a sequence of numbers.  Numbers are exact: a finite value is a      *)
(* reduced fraction <<num, den>> with den > 0, and the non-finite values   *)
(* of floating point (+inf, -inf, nan) are kept apart, so the formulas of  *)
(* the code are computed as written, without rounding.  The value of a     *)
(* square root that is not rational is the one value Surd.  The gradient   *)
(* output (grad=True) and the squeezed convenience are not modelled.       *)
(***************************************************************************)
EXTENDS Integers, Sequences, FiniteSets, TLC

(***************************************************************************)
(* Exact arithmetic on the values of a tensor.                             *)
(***************************************************************************)
NaN  == <<0, 0>>
PInf == <<1, 0>>
NInf == <<-1, 0>>
Surd == <<0, -1>>

Abs(n) == IF n < 0 THEN -n ELSE n

Sign(n) == IF n < 0 THEN -1 ELSE IF n = 0 THEN 0 ELSE 1

RECURSIVE GCD(_, _)
GCD(a, b) == IF b = 0 THEN a ELSE GCD(b, a % b)

\* the fraction n/d (d # 0) in lowest terms with a positive denominator
Frac(n, d) ==
    LET g == GCD(Abs(n), Abs(d))
        s == IF d < 0 THEN -1 ELSE 1
    IN  <<(s * n) \div g, (s * d) \div g>>

R(n) == <<n, 1>>

IsFin(a)  == a[2] > 0
IsNaN(a)  == a = NaN
IsInf(a)  == a = PInf \/ a = NInf
IsSurd(a) == a = Surd
\* the sign of a finite or infinite value
Sgn(a) == Sign(a[1])

Neg(a) == IF a[2] >= 0 /\ a # NaN THEN <<-a[1], a[2]>> ELSE a

\* the rules of floating point for an operand that is not finite
AddX(a, b) ==
    IF IsNaN(a) \/ IsNaN(b) THEN NaN
    ELSE IF IsSurd(a) \/ IsSurd(b) THEN Surd
    ELSE IF IsInf(a) THEN (IF IsInf(b) /\ b # a THEN NaN ELSE a)
    ELSE b

Add(a, b) ==
    IF a[2] > 0 /\ b[2] > 0
    THEN Frac(a[1] * b[2] + b[1] * a[2], a[2] * b[2])
    ELSE AddX(a, b)

Sub(a, b) == Add(a, Neg(b))

MulX(a, b) ==
    IF IsNaN(a) \/ IsNaN(b) THEN NaN
    ELSE IF IsSurd(a) \/ IsSurd(b) THEN Surd
    ELSE IF Sgn(a) * Sgn(b) = 0 THEN NaN
    ELSE IF Sgn(a) * Sgn(b) > 0 THEN PInf ELSE NInf

Mul(a, b) ==
    IF a[2] > 0 /\ b[2] > 0 THEN Frac(a[1] * b[1], a[2] * b[2]) ELSE MulX(a, b)

DivX(a, b) ==
    IF IsNaN(a) \/ IsNaN(b) THEN NaN
    ELSE IF IsSurd(a) \/ IsSurd(b) THEN Surd
    ELSE IF IsInf(b) THEN (IF IsInf(a) THEN NaN ELSE R(0))
    ELSE IF IsInf(a) THEN (IF Sgn(a) * Sgn(b) < 0 THEN NInf ELSE PInf)
    ELSE IF a[1] = 0 THEN NaN ELSE IF a[1] > 0 THEN PInf ELSE NInf

\* a / b as floating point divides: x/0 is an infinity of x's sign, 0/0 is nan
Div(a, b) ==
    IF a[2] > 0 /\ b[2] > 0 /\ b[1] # 0
    THEN Frac(a[1] * b[2], a[2] * b[1])
    ELSE DivX(a, b)

\* a < b, false as soon as one side is nan
Lt(a, b) ==
    IF a[2] > 0 /\ b[2] > 0 THEN a[1] * b[2] < b[1] * a[2]
    ELSE IF IsNaN(a) \/ IsNaN(b) THEN FALSE
    ELSE IF IsInf(a) /\ IsInf(b) THEN a = NInf /\ b = PInf
    ELSE IF IsInf(a) THEN a = NInf ELSE b = PInf

Ge(a, b) ==
    IF a[2] > 0 /\ b[2] > 0 THEN a[1] * b[2] >= b[1] * a[2]
    ELSE ~IsNaN(a) /\ ~IsNaN(b) /\ ~Lt(a, b)

Le(a, b) == Ge(b, a)

\* the largest k in lo..hi with k*k <= n  (lo*lo <= n)
RECURSIVE ISqrt(_, _, _)
ISqrt(n, lo, hi) ==
    IF lo >= hi THEN lo
    ELSE LET mid == (lo + hi + 1) \div 2
         IN  IF mid <= n \div mid THEN ISqrt(n, mid, hi) ELSE ISqrt(n, lo, mid - 1)

IntRoot(n) == ISqrt(n, 0, n)

\* torch.sqrt: nan below zero, exact on the square of a fraction
Sqrt(a) ==
    IF IsNaN(a) \/ a = NInf THEN NaN
    ELSE IF a = PInf \/ IsSurd(a) THEN a
    ELSE IF a[1] < 0 THEN NaN
    ELSE LET p == IntRoot(a[1])
             q == IntRoot(a[2])
         IN  IF p * p = a[1] /\ q * q = a[2] THEN <<p, q>> ELSE Surd

(***************************************************************************)
(* Tensors: a sequence of rows (the batch), each a sequence along the knot *)
(* axis.  None is the tensor with no rows.                                 *)
(***************************************************************************)
None == <<>>

Shape(t) == IF Len(t) = 0 THEN <<0, 0>> ELSE <<Len(t), Len(t[1])>>

\* torch.index_select(z, knots_axis, ind), ind a sequence of 1-based indices
select(z, ind) == [b \in 1..Len(z) |-> [i \in 1..Len(ind) |-> z[b][ind[i]]]]

\* flip with the reversal left out
flip_kept(z) == z

\* torch.flip(z, [knots_axis])
flip(z) == [b \in 1..Len(z) |-> [i \in 1..Len(z[b]) |-> z[b][Len(z[b]) + 1 - i]]]

\* range(a, b) as a sequence of 1-based indices a..b
Range(a, b) == [i \in 1..(IF b >= a THEN b - a + 1 ELSE 0) |-> a + i - 1]

\* elementwise tensor operations on tensors of one shape
TensorAdd(s, t) == [b \in 1..Len(s) |-> [i \in 1..Len(s[b]) |-> Add(s[b][i], t[b][i])]]

TensorSub(s, t) == [b \in 1..Len(s) |-> [i \in 1..Len(s[b]) |-> Sub(s[b][i], t[b][i])]]

TensorDiv(s, t) == [b \in 1..Len(s) |-> [i \in 1..Len(s[b]) |-> Div(s[b][i], t[b][i])]]

TensorNeg(s) == [b \in 1..Len(s) |-> [i \in 1..Len(s[b]) |-> Neg(s[b][i])]]

Scale(c, s) == [b \in 1..Len(s) |-> [i \in 1..Len(s[b]) |-> Mul(c, s[b][i])]]

Shift(s, c) == [b \in 1..Len(s) |-> [i \in 1..Len(s[b]) |-> Add(s[b][i], c)]]

RECURSIVE CatRows(_, _)
CatRows(ts, b) == IF Len(ts) = 0 THEN <<>> ELSE Head(ts)[b] \o CatRows(Tail(ts), b)

\* torch.cat(ts, knots_axis)
TorchCat(ts) == [b \in 1..Len(ts[1]) |-> CatRows(ts, b)]

(***************************************************************************)
(* Derivative smoothing.                                                   *)
(***************************************************************************)
\* diff_select(z, knot_ind): select(z, ind[1:]) - select(z, ind[:-1])
diff_select(z) ==
    [b \in 1..Len(z) |-> [k \in 1..(Len(z[b]) - 1) |-> Sub(z[b][k + 1], z[b][k])]]

sum_select(z) ==
    [b \in 1..Len(z) |-> [k \in 1..(Len(z[b]) - 1) |-> Add(z[b][k + 1], z[b][k])]]

\* m: the slope of every segment
slopes(knots_x, knots_y) == TensorDiv(diff_select(knots_y), diff_select(knots_x))

\* SplineTemplate.smooth_derivatives, which Pade22Spline inherits
smooth_derivatives(knots_x, knots_y, bc_type) ==
    LET knots_len == Len(knots_x[1])
        m       == slopes(knots_x, knots_y)
        m_avg   == Scale(<<1, 2>>, sum_select(m))
        ones    == [b \in 1..Len(m) |-> <<R(1)>>]
        m_left  == IF bc_type = "ones" THEN ones ELSE select(m, <<1>>)
        m_right == IF bc_type = "ones" THEN ones ELSE select(m, <<knots_len - 1>>)
    IN  TorchCat(<<m_left, m_avg, m_right>>)

RECURSIVE Prod(_)
Prod(row) == IF Len(row) = 0 THEN R(1) ELSE Mul(Head(row), Prod(Tail(row)))

\* the indices lo, lo+2, ... below hi  (knot_ind[lo:hi:2], 1-based)
RECURSIVE Stride2(_, _)
Stride2(lo, hi) == IF lo >= hi THEN <<>> ELSE <<lo>> \o Stride2(lo + 2, hi)

\* the fold of lines 285-287 over one row of slopes: d_list after k segments
RECURSIVE d_list(_, _, _)
d_list(mrow, d0, k) ==
    IF k = 0 THEN <<d0>>
    ELSE LET prev == d_list(mrow, d0, k - 1)
         IN  Append(prev, Div(Mul(mrow[k], mrow[k]), prev[k]))

\* smooth_derivatives with d0 the product itself, the "* 0 + 1" left out
Pade11_smooth_derivatives_prod(knots_x, knots_y, bc_type) ==
    LET knots_len == Len(knots_x[1])
        m  == slopes(knots_x, knots_y)
        n  == 2 * ((knots_len - 1) \div 2)
        ratio == TensorDiv(select(m, Stride2(2, n + 1)), select(m, Stride2(1, n + 1)))
        d0 == [b \in 1..Len(m) |-> Prod(ratio[b])]
    IN  IF bc_type = "natural"
        THEN [raised |-> FALSE,
              value  |-> [b \in 1..Len(m) |-> d_list(m[b], d0[b], knots_len - 1)]]
        ELSE [raised |-> TRUE, value |-> None]

\* Pade11Spline.smooth_derivatives: [raised, value]
Pade11_smooth_derivatives(knots_x, knots_y, bc_type) ==
    LET knots_len == Len(knots_x[1])
        m  == slopes(knots_x, knots_y)
        n  == 2 * ((knots_len - 1) \div 2)
        ratio == TensorDiv(select(m, Stride2(2, n + 1)), select(m, Stride2(1, n + 1)))
        d0 == [b \in 1..Len(m) |-> Add(Mul(Prod(ratio[b]), R(0)), R(1))]
    IN  IF bc_type = "natural"
        THEN [raised |-> FALSE,
              value  |-> [b \in 1..Len(m) |-> d_list(m[b], d0[b], knots_len - 1)]]
        ELSE [raised |-> TRUE, value |-> None]

(***************************************************************************)
(* AugmentKnots.  A knot set k is a record [knots_x, knots_y, knots_d];     *)
(* the methods return the object's fields after the call.                  *)
(***************************************************************************)
\* AugmentKnots.cat: drops the None items, concatenates the rest
cat(catlist) ==
    LET kept == SelectSeq(catlist, LAMBDA t : t # None)
    IN  IF Len(kept) > 1 THEN TorchCat(kept) ELSE kept[1]

\* the broadcast with + where BroadcastSub has -
BroadcastAdd(c, z) == [b \in 1..Len(z) |-> [i \in 1..Len(z[b]) |-> Add(c[b][1], z[b][i])]]

\* c - z with c of shape (batch, 1) broadcast along the knot axis
BroadcastSub(c, z) == [b \in 1..Len(z) |-> [i \in 1..Len(z[b]) |-> Sub(c[b][1], z[b][i])]]

\* takecare_linear with the signs of the boundary derivative exchanged in
\* the fiducial y
takecare_linear_swapped(k, left, right) ==
    LET x == k.knots_x
        y == k.knots_y
        d == k.knots_d
        n == Len(x[1])
        select_0(z) == select(z, <<1>>)
        select_1(z) == select(z, <<n>>)
        isl == left = "linear"
        isr == right = "linear"
        x_fiducial_left  == IF isl THEN Shift(select_0(x), R(-1)) ELSE None
        y_fiducial_left  == IF isl THEN TensorAdd(select_0(y), select_0(d)) ELSE None
        d_fiducial_left  == IF isl THEN select_0(d) ELSE None
        x_fiducial_right == IF isr THEN Shift(select_1(x), R(1)) ELSE None
        y_fiducial_right == IF isr THEN TensorSub(select_1(y), select_1(d)) ELSE None
        d_fiducial_right == IF isr THEN select_1(d) ELSE None
    IN  [knots_x |-> cat(<<x_fiducial_left, x, x_fiducial_right>>),
         knots_y |-> cat(<<y_fiducial_left, y, y_fiducial_right>>),
         knots_d |-> cat(<<d_fiducial_left, d, d_fiducial_right>>)]

\* AugmentKnots.takecare_linear
takecare_linear(k, left, right) ==
    LET x == k.knots_x
        y == k.knots_y
        d == k.knots_d
        n == Len(x[1])
        select_0(z) == select(z, <<1>>)
        select_1(z) == select(z, <<n>>)
        isl == left = "linear"
        isr == right = "linear"
        x_fiducial_left  == IF isl THEN Shift(select_0(x), R(-1)) ELSE None
        y_fiducial_left  == IF isl THEN TensorSub(select_0(y), select_0(d)) ELSE None
        d_fiducial_left  == IF isl THEN select_0(d) ELSE None
        x_fiducial_right == IF isr THEN Shift(select_1(x), R(1)) ELSE None
        y_fiducial_right == IF isr THEN TensorAdd(select_1(y), select_1(d)) ELSE None
        d_fiducial_right == IF isr THEN select_1(d) ELSE None
    IN  [knots_x |-> cat(<<x_fiducial_left, x, x_fiducial_right>>),
         knots_y |-> cat(<<y_fiducial_left, y, y_fiducial_right>>),
         knots_d |-> cat(<<d_fiducial_left, d, d_fiducial_right>>)]

\* `not sum(torch.index_select(d, axis, ind) == 0)`: Python's sum runs over
\* the batch, so the test is true when no row has a zero there
NotSumIsZero(d, ind) == Cardinality({b \in 1..Len(d) : d[b][ind] = R(0)}) = 0

IsAnti(s) == s \in {"anti", "anti-periodic"}

\* AugmentKnots.takecare_rest: [raised, knots_x, knots_y, knots_d]
takecare_rest(k, left, right) ==
    LET x == k.knots_x
        y == k.knots_y
        d == k.knots_d
        n == Len(x[1])
        select_0(z) == select(z, <<1>>)
        select_1(z) == select(z, <<n>>)
        selectflip(z, ind) == flip(select(z, ind))
        tail == Range(2, n)
        init == Range(1, n - 1)
        raise_left  == ~IsAnti(left) /\ left = "periodic" /\ NotSumIsZero(d, 1)
        raise_right == ~IsAnti(right) /\ right = "periodic" /\ NotSumIsZero(d, n)
        x_fiducial_left ==
            IF IsAnti(left) \/ left = "periodic"
            THEN BroadcastSub(Scale(R(2), select_0(x)), selectflip(x, tail))
            ELSE None
        y_fiducial_left ==
            IF IsAnti(left)
            THEN BroadcastSub(Scale(R(2), select_0(y)), selectflip(y, tail))
            ELSE IF left = "periodic" THEN selectflip(y, tail) ELSE None
        d_fiducial_left ==
            IF IsAnti(left) THEN selectflip(d, tail)
            ELSE IF left = "periodic" THEN TensorNeg(selectflip(d, tail)) ELSE None
        x_fiducial_right ==
            IF IsAnti(right) \/ right = "periodic"
            THEN BroadcastSub(Scale(R(2), select_1(x)), selectflip(x, init))
            ELSE None
        y_fiducial_right ==
            IF IsAnti(right)
            THEN BroadcastSub(Scale(R(2), select_1(y)), selectflip(y, init))
            ELSE IF right = "periodic" THEN selectflip(y, init) ELSE None
        d_fiducial_right ==
            IF IsAnti(right) THEN selectflip(d, init)
            ELSE IF right = "periodic" THEN TensorNeg(selectflip(d, init)) ELSE None
    IN  IF raise_left \/ raise_right
        THEN [raised |-> TRUE, knots_x |-> x, knots_y |-> y, knots_d |-> d]
        ELSE [raised  |-> FALSE,
              knots_x |-> cat(<<x_fiducial_left, x, x_fiducial_right>>),
              knots_y |-> cat(<<y_fiducial_left, y, y_fiducial_right>>),
              knots_d |-> cat(<<d_fiducial_left, d, d_fiducial_right>>)]

\* AugmentKnots.perform_bc: [raised, knots_x, knots_y, knots_d]
perform_bc(k, left, right) ==
    LET unchanged == [raised |-> FALSE, knots_x |-> k.knots_x,
                      knots_y |-> k.knots_y, knots_d |-> k.knots_d]
        lin == takecare_linear(k, left, right)
    IN  IF left = "None" /\ right = "None" THEN unchanged
        ELSE IF left = "linear" \/ right = "linear"
             THEN (IF left = "None" \/ right = "None"
                   THEN [raised |-> FALSE, knots_x |-> lin.knots_x,
                         knots_y |-> lin.knots_y, knots_d |-> lin.knots_d]
                   ELSE takecare_rest(lin, left, right))
        ELSE takecare_rest(k, left, right)

(***************************************************************************)
(* Evaluation: the sorted search and the segment functions.                *)
(***************************************************************************)
\* torch.searchsorted on one row (right=False): the binary search for the
\* first index whose value is >= v, counted from 0
RECURSIVE LowerBound(_, _, _, _)
LowerBound(row, v, start, end) ==
    IF start >= end THEN start
    ELSE LET mid == start + ((end - start) \div 2)
         IN  IF ~Ge(row[mid + 1], v)
             THEN LowerBound(row, v, mid + 1, end)
             ELSE LowerBound(row, v, start, mid)

\* the search with right=True: the first index whose value is > v
RECURSIVE UpperBound(_, _, _, _)
UpperBound(row, v, start, end) ==
    IF start >= end THEN start
    ELSE LET mid == start + ((end - start) \div 2)
         IN  IF ~Lt(v, row[mid + 1])
             THEN UpperBound(row, v, mid + 1, end)
             ELSE UpperBound(row, v, start, mid)

searchsorted_right(x_sorted, x) ==
    [b \in 1..Len(x) |->
        [j \in 1..Len(x[b]) |-> UpperBound(x_sorted[b], x[b][j], 0, Len(x_sorted[b]))]]

\* SplineTemplate.searchsorted with the knot axis last
searchsorted(x_sorted, x) ==
    [b \in 1..Len(x) |->
        [j \in 1..Len(x[b]) |-> LowerBound(x_sorted[b], x[b][j], 0, Len(x_sorted[b]))]]

\* torch.clamp(segm_ind, min=1, max=segm_len) - 1; max wins when min > max
clamp(i, lo, hi) == IF i > hi THEN hi ELSE IF i < lo THEN (IF lo > hi THEN hi ELSE lo) ELSE i

segm_clamp(self_, segm_ind) ==
    [b \in 1..Len(segm_ind) |->
        [j \in 1..Len(segm_ind[b]) |-> clamp(segm_ind[b][j], 1, self_.segm_len) - 1]]

\* torch.gather(z, axis, segm_ind + i), for one entry (b, j) of segm_ind
gather(z, ind, i, b, j) == z[b][ind[b][j] + i + 1]

\* the six parameters of the segment of entry (b, j)
segment(self_, ind, b, j) ==
    LET x0 == gather(self_.knots_x, ind, 0, b, j)
        x1 == gather(self_.knots_x, ind, 1, b, j)
        y0 == gather(self_.knots_y, ind, 0, b, j)
        y1 == gather(self_.knots_y, ind, 1, b, j)
    IN  [x0 |-> x0, x1 |-> x1, y0 |-> y0, y1 |-> y1,
         d0 |-> gather(self_.knots_d, ind, 0, b, j),
         d1 |-> gather(self_.knots_d, ind, 1, b, j),
         m  |-> Div(Sub(y1, y0), Sub(x1, x0))]

\* Pade22Spline._calc_segment_func: g_0 at theta = (x - x0)/(x1 - x0)
Pade22_g_0(g, x) ==
    LET theta == Div(Sub(x, g.x0), Sub(g.x1, g.x0))
        omt   == Sub(R(1), theta)
        s     == Sub(Add(g.d1, g.d0), Mul(R(2), g.m))
        num   == Mul(Mul(Sub(g.y1, g.y0), theta),
                     Add(Mul(g.m, theta), Mul(g.d0, omt)))
        den   == Add(g.m, Mul(Mul(s, theta), omt))
    IN  Add(g.y0, Div(num, den))

\* calc_theta with the other root of the quadratic
Pade22_calc_theta_plus(g, eta) ==
    LET a2 == Sub(Add(Mul(Sub(Sub(Mul(R(2), g.m), g.d1), g.d0), eta), g.d0), g.m)
        a1 == Sub(Neg(a2), g.m)
        a0 == Mul(g.m, eta)
        delta == Sqrt(Sub(Mul(a1, a1), Mul(Mul(R(4), a0), a2)))
    IN  IF a2 = R(0) THEN Div(Neg(a0), a1)
        ELSE Div(Add(Neg(a1), delta), Mul(R(2), a2))

\* Pade22Spline._calc_segment_inv_func: calc_theta, then x
Pade22_calc_theta(g, eta) ==
    LET a2 == Sub(Add(Mul(Sub(Sub(Mul(R(2), g.m), g.d1), g.d0), eta), g.d0), g.m)
        a1 == Sub(Neg(a2), g.m)
        a0 == Mul(g.m, eta)
        delta == Sqrt(Sub(Mul(a1, a1), Mul(Mul(R(4), a0), a2)))
    IN  IF a2 = R(0) THEN Div(Neg(a0), a1)
        ELSE Div(Sub(Neg(a1), delta), Mul(R(2), a2))

Pade22_inv(g, y) ==
    LET eta   == Div(Sub(y, g.y0), Sub(g.y1, g.y0))
        theta == Pade22_calc_theta(g, eta)
    IN  Add(g.x0, Mul(Sub(g.x1, g.x0), theta))

\* Pade11Spline._calc_segment_func: g_0
Pade11_g_0(g, x) ==
    LET theta == Div(Sub(x, g.x0), Sub(g.x1, g.x0))
        num   == Mul(Mul(Sub(g.y1, g.y0), g.d0), theta)
        den   == Add(g.m, Mul(Sub(g.d0, g.m), theta))
    IN  Add(g.y0, Div(num, den))

\* Pade11Spline._calc_segment_inv_func
Pade11_inv(g, y) ==
    LET eta   == Div(Sub(y, g.y0), Sub(g.y1, g.y0))
        theta == Div(Mul(Neg(eta), g.m), Sub(Mul(eta, Sub(g.d0, g.m)), g.d0))
    IN  Add(g.x0, Mul(Sub(g.x1, g.x0), theta))

\* self._calc_segment_func(segments_ind)(x)
calc_segment_func(class, self_, segm_ind, x) ==
    LET ind == segm_clamp(self_, segm_ind)
    IN  [b \in 1..Len(x) |-> [j \in 1..Len(x[b]) |->
            IF class = "Pade22Spline"
            THEN Pade22_g_0(segment(self_, ind, b, j), x[b][j])
            ELSE Pade11_g_0(segment(self_, ind, b, j), x[b][j])]]

\* self._calc_segment_inv_func(segments_ind)(y)
calc_segment_inv_func(class, self_, segm_ind, y) ==
    LET ind == segm_clamp(self_, segm_ind)
    IN  [b \in 1..Len(y) |-> [j \in 1..Len(y[b]) |->
            IF class = "Pade22Spline"
            THEN Pade22_inv(segment(self_, ind, b, j), y[b][j])
            ELSE Pade11_inv(segment(self_, ind, b, j), y[b][j])]]

\* SplineTemplate.forward(x)
forward(class, self_, x) ==
    calc_segment_func(class, self_, searchsorted(self_.knots_x, x), x)

\* SplineTemplate.backward(y)
backward(class, self_, y) ==
    calc_segment_inv_func(class, self_, searchsorted(self_.knots_y, y), y)

(***************************************************************************)
(* The state: one spline under construction and then in use.               *)
(***************************************************************************)
VARIABLES
    cls,     \* the class constructed: "Pade22Spline" or "Pade11Spline"
    args,    \* the arguments of __init__
    pc,      \* the position of __init__, then "ready" or "raised"
    loc,     \* __init__'s local knots_x, knots_y, knots_d
    handed,  \* the knot set AugmentKnots was constructed with (line 61)
    self,    \* the attributes of the instance
    raised,  \* the message of the exception raised, "" if none
    ran,     \* the callees __init__ has run, in order
    call     \* the last evaluation call and its result

vars == <<cls, args, pc, loc, handed, self, raised, ran, call>>

\* bounds of the inputs
MaxKnots == 3
BatchLen == 2

Classes == {"Pade22Spline", "Pade11Spline"}
\* the selectors of the code, and one it does not know
Known == {"None", "linear", "periodic", "anti", "anti-periodic"}
Selectors == Known \cup {"cubic"}
KnotLens == 2..MaxKnots
\* the (width, height) of a segment; the values of a knot derivative; the
\* positions theta asked inside a segment
Shapes == {<<1, 1>>, <<1, 2>>, <<2, 1>>}
Derivs == {0, 1, 2}
Thetas == {<<1, 2>>, <<1, 4>>}
\* the first knot's x and y
Origin == <<1, 2>>

\* the shapes of the segments of a row of n knots: the first two are free
\* and the later ones repeat them
Patterns(n) == [1..(IF n = 2 THEN 1 ELSE 2) -> Shapes]

RECURSIVE KnotAt(_, _, _)
KnotAt(p, c, i) ==
    IF i = 1 THEN Origin[c]
    ELSE KnotAt(p, c, i - 1) + p[((i - 2) % Len(p)) + 1][c]

\* the row of n knot coordinates (c = 1: x, c = 2: y) of pattern p, moved by s
KnotRow(p, c, n, s) == [i \in 1..n |-> R(KnotAt(p, c, i) + s)]

\* rows of n knot derivatives: one of ends at either end, one value of
\* inner at the interior knots
DerivRows(n, ends, inner) ==
    {[i \in 1..n |-> R(IF i = 1 THEN f ELSE IF i = n THEN l ELSE a)] :
        f \in ends, l \in ends, a \in inner}

\* the attributes of an instance before __init__ assigns them
Unassigned ==
    [knots_x |-> None, knots_y |-> None, knots_d |-> None, knots_axis |-> 0,
     knots_len |-> 0, segm_len |-> 0, shape |-> <<0, 0>>,
     extrapolate |-> FALSE, extrap_left |-> "", extrap_right |-> ""]

NoKnots == [knots_x |-> None, knots_y |-> None, knots_d |-> None]

NoCall ==
    [op |-> "none", x |-> None, raw |-> None, ind |-> None, out |-> None, of |-> None]

Arguments(x, y, d, e, l, r) ==
    [knots_x |-> x, knots_y |-> y, knots_d |-> d,
     extrapolate |-> e, extrap_left |-> l, extrap_right |-> r]

Start(class, a) ==
    /\ cls = class
    /\ args = a
    /\ pc = "check_extrapolate"
    /\ loc = [knots_x |-> a.knots_x, knots_y |-> a.knots_y, knots_d |-> a.knots_d]
    /\ handed = NoKnots
    /\ self = Unassigned
    /\ raised = ""
    /\ ran = <<>>
    /\ call = NoCall

\* batches of one row: every pattern, with derivatives given or left out
RowInputs(sels) ==
    \E class \in Classes, n \in KnotLens, l \in sels, r \in sels :
      \E p \in Patterns(n), d \in {None} \cup {<<e>> : e \in DerivRows(n, Derivs, {1})} :
         Start(class, Arguments(<<KnotRow(p, 1, n, 0)>>, <<KnotRow(p, 2, n, 0)>>,
                                d, TRUE, l, r))

\* batches of BatchLen rows, row b moved by b - 1, whose derivatives differ
\* from row to row at the two ends
BatchInputs ==
    \E class \in Classes, n \in KnotLens, l \in Selectors, r \in Selectors :
      \E d \in {None} \cup [1..BatchLen -> DerivRows(n, {0, 1}, {1})] :
         LET p == [i \in 1..(n - 1) |-> <<2, 1>>]
         IN  Start(class, Arguments([b \in 1..BatchLen |-> KnotRow(p, 1, n, b - 1)],
                                    [b \in 1..BatchLen |-> KnotRow(p, 2, n, b - 1)],
                                    d, TRUE, l, r))

\* extrapolate=False, and knots_y of another shape than knots_x
BadInputs ==
    \E class \in Classes, e \in BOOLEAN, l \in {"None", "linear", "anti"} :
      \E nx \in KnotLens, ny \in KnotLens, bx \in 1..BatchLen, by \in 1..BatchLen :
        \E d \in {None, [b \in 1..bx |-> [i \in 1..nx |-> R(1)]]} :
           LET p == [i \in 1..MaxKnots |-> <<1, 2>>]
           IN  Start(class, Arguments([b \in 1..bx |-> KnotRow(p, 1, nx, 0)],
                                      [b \in 1..by |-> KnotRow(p, 2, ny, 0)],
                                      d, e, l, "None"))

\* a spline to evaluate: one row, the selectors the code knows
Init == RowInputs({"None", "linear", "periodic", "anti"})

\* any construction: every selector, batches, bad arguments
InitConstruct == RowInputs(Selectors) \/ BatchInputs \/ BadInputs

(***************************************************************************)
(* SplineTemplate.__init__, statement by statement.                        *)
(***************************************************************************)
Raise(msg) ==
    /\ pc' = "raised"
    /\ raised' = msg
    /\ UNCHANGED <<cls, args, loc, handed, self, ran, call>>

\* line 51 with the test left out
CheckExtrapolate_unchecked ==
    /\ pc = "check_extrapolate"
    /\ pc' = "check_shape"
    /\ UNCHANGED <<cls, args, loc, handed, self, raised, ran, call>>

\* line 51
CheckExtrapolate ==
    /\ pc = "check_extrapolate"
    /\ IF args.extrapolate = FALSE
       THEN Raise("'extrapolate == False' is not supported yet!")
       ELSE /\ pc' = "check_shape"
            /\ UNCHANGED <<cls, args, loc, handed, self, raised, ran, call>>

\* line 54
CheckShape ==
    /\ pc = "check_shape"
    /\ IF Shape(loc.knots_x) # Shape(loc.knots_y)
       THEN Raise("x and y must have the same shape.")
       ELSE /\ pc' = "smooth"
            /\ UNCHANGED <<cls, args, loc, handed, self, raised, ran, call>>

\* self.smooth_derivatives(knots_x, knots_y, knots_axis) of the class
SmoothOf(class, knots_x, knots_y) ==
    IF class = "Pade22Spline"
    THEN [raised |-> FALSE, value |-> smooth_derivatives(knots_x, knots_y, "not-ones")]
    ELSE Pade11_smooth_derivatives(knots_x, knots_y, "natural")

\* lines 57-58
Smooth ==
    /\ pc = "smooth"
    /\ IF loc.knots_d = None
       THEN LET r == SmoothOf(cls, loc.knots_x, loc.knots_y)
            IN  IF r.raised
                THEN /\ pc' = "raised"
                     /\ raised' = "bc_type is not know"
                     /\ ran' = Append(ran, "smooth_derivatives")
                     /\ UNCHANGED <<cls, args, loc, handed, self, call>>
                ELSE /\ pc' = "augment"
                     /\ loc' = [loc EXCEPT !.knots_d = r.value]
                     /\ ran' = Append(ran, "smooth_derivatives")
                     /\ UNCHANGED <<cls, args, handed, self, raised, call>>
       ELSE /\ pc' = "augment"
            /\ UNCHANGED <<cls, args, loc, handed, self, raised, ran, call>>

\* lines 60-62: AugmentKnots(knots_x, knots_y, knots_d, knots_axis)(left, right)
Augment ==
    /\ pc = "augment"
    /\ handed' = loc
    /\ ran' = Append(ran, "AugmentKnots")
    /\ LET r == perform_bc(loc, args.extrap_left, args.extrap_right)
       IN  IF r.raised
           THEN /\ pc' = "raised"
                /\ raised' = "Oops: derivative at periodic bc must be zero."
                /\ UNCHANGED <<cls, args, loc, self, call>>
           ELSE /\ pc' = "assign"
                /\ loc' = [knots_x |-> r.knots_x, knots_y |-> r.knots_y,
                           knots_d |-> r.knots_d]
                /\ UNCHANGED <<cls, args, self, raised, call>>

\* lines 64-73
Assign ==
    /\ pc = "assign"
    /\ self' = [knots_x |-> loc.knots_x, knots_y |-> loc.knots_y,
                knots_d |-> loc.knots_d, knots_axis |-> -1,
                knots_len |-> Len(loc.knots_x[1]),
                segm_len |-> Len(loc.knots_x[1]) - 1,
                shape |-> Shape(loc.knots_x),
                extrapolate |-> args.extrapolate,
                extrap_left |-> args.extrap_left,
                extrap_right |-> args.extrap_right]
    /\ pc' = "ready"
    /\ UNCHANGED <<cls, args, loc, handed, raised, ran, call>>

(***************************************************************************)
(* forward and backward on the constructed spline.  A query is a tensor of *)
(* one column holding the same value in every row of the batch.            *)
(***************************************************************************)
\* the values asked of a row of knots: the knots, the points at Thetas inside
\* every segment, and a point one unit outside either end
Queries(row) ==
    {row[i] : i \in 1..Len(row)}
    \cup {Add(row[i], Mul(t, Sub(row[i + 1], row[i]))) :
            i \in 1..(Len(row) - 1), t \in Thetas}
    \cup {Sub(row[1], R(1)), Add(row[Len(row)], R(1))}

Column(v) == [b \in 1..Len(self.knots_x) |-> <<v>>]

Forward ==
    /\ pc = "ready"
    /\ call.op = "none"
    /\ \E v \in Queries(self.knots_x[1]) :
          LET x == Column(v)
              segments_ind == searchsorted(self.knots_x, x)
          IN  call' = [op |-> "forward", x |-> x, raw |-> segments_ind,
                       ind |-> segm_clamp(self, segments_ind),
                       out |-> calc_segment_func(cls, self, segments_ind, x),
                       of |-> None]
    /\ UNCHANGED <<cls, args, pc, loc, handed, self, raised, ran>>

Backward ==
    /\ pc = "ready"
    /\ call.op = "none"
    /\ \E v \in Queries(self.knots_y[1]) :
          LET y == Column(v)
              segments_ind == searchsorted(self.knots_y, y)
          IN  call' = [op |-> "backward", x |-> y, raw |-> segments_ind,
                       ind |-> segm_clamp(self, segments_ind),
                       out |-> calc_segment_inv_func(cls, self, segments_ind, y),
                       of |-> None]
    /\ UNCHANGED <<cls, args, pc, loc, handed, self, raised, ran>>

\* backward applied to the result of the forward call just made
BackwardOfForward ==
    /\ pc = "ready"
    /\ call.op = "forward"
    /\ LET segments_ind == searchsorted(self.knots_y, call.out)
       IN  call' = [op |-> "backward", x |-> call.out, raw |-> segments_ind,
                    ind |-> segm_clamp(self, segments_ind),
                    out |-> calc_segment_inv_func(cls, self, segments_ind, call.out),
                    of |-> call.x]
    /\ UNCHANGED <<cls, args, pc, loc, handed, self, raised, ran>>

Next ==
    \/ CheckExtrapolate
    \/ CheckShape
    \/ Smooth
    \/ Augment
    \/ Assign
    \/ Forward
    \/ Backward
    \/ BackwardOfForward

Spec == Init /\ [][Next]_vars

\* construction alone
NextConstruct ==
    \/ CheckExtrapolate
    \/ CheckShape
    \/ Smooth
    \/ Augment
    \/ Assign

SpecConstruct == InitConstruct /\ [][NextConstruct]_vars

(***************************************************************************)
(* Pade11Spline.smooth_derivatives called on its own (a static method),    *)
(* with any bc_type.                                                       *)
(***************************************************************************)
\* bound of the knots of a smoothing call
MaxSmoothKnots == 5

BcTypes == {"natural", "not-ones", "ones"}

\* rows of n knots whose n - 1 steps are drawn freely from Shapes
SmoothPatterns(n) == [1..(n - 1) -> Shapes]

InitSmooth ==
    \E n \in 2..MaxSmoothKnots, batch \in {1, BatchLen} :
      \E p \in SmoothPatterns(n) :
         /\ cls = "Pade11Spline"
         /\ args = Arguments([b \in 1..batch |-> KnotRow(p, 1, n, b - 1)],
                             [b \in 1..batch |-> KnotRow(p, 2, n, 2 * (b - 1))],
                             None, TRUE, "None", "None")
         /\ pc = "static"
         /\ loc = NoKnots
         /\ handed = NoKnots
         /\ self = Unassigned
         /\ raised = ""
         /\ ran = <<>>
         /\ call = NoCall

\* lines 267-288
SmoothDerivatives ==
    /\ pc = "static"
    /\ \E bc_type \in BcTypes :
          LET r == Pade11_smooth_derivatives(args.knots_x, args.knots_y, bc_type)
          IN  /\ call' = [op |-> "smooth_derivatives", bc_type |-> bc_type,
                          out |-> r.value]
              /\ pc' = IF r.raised THEN "raised" ELSE "returned"
              /\ raised' = IF r.raised THEN "bc_type is not know" ELSE ""
    /\ ran' = Append(ran, "smooth_derivatives")
    /\ UNCHANGED <<cls, args, loc, handed, self>>

NextSmooth == SmoothDerivatives

SpecSmooth == InitSmooth /\ [][NextSmooth]_vars

(***************************************************************************)
(* Properties.  Spec is a spline constructed and then evaluated,           *)
(* SpecConstruct any construction.                                         *)
(***************************************************************************)
Pos(t) == \A b \in 1..Len(t) : \A i \in 1..Len(t[b]) : Lt(R(0), t[b][i])

StrictInc(row) == \A i \in 1..(Len(row) - 1) : Lt(row[i], row[i + 1])

NonDecreasing(row) == \A i \in 1..(Len(row) - 1) : Le(row[i], row[i + 1])

Increasing(t) == \A b \in 1..Len(t) : StrictInc(t[b])

InRange(row, v) == Le(row[1], v) /\ Le(v, row[Len(row)])

Last(row) == row[Len(row)]

\* AugmentKnots has returned a knot set to __init__
Returned == pc \in {"assign", "ready"}

IsReflect(s) == IsAnti(s) \/ s = "periodic"

\* knot derivatives positive, but for a zero at a periodic boundary
ValidDerivatives ==
    \A b \in 1..Len(handed.knots_d) : \A i \in 1..Len(handed.knots_d[b]) :
       LET v == handed.knots_d[b][i]
       IN  \/ Lt(R(0), v)
           \/ /\ v = R(0)
              /\ \/ (i = 1 /\ args.extrap_left = "periodic")
                 \/ (i = Len(handed.knots_d[b]) /\ args.extrap_right = "periodic")

ValidKnots ==
    /\ args.extrap_left \in Known /\ args.extrap_right \in Known
    /\ Increasing(handed.knots_x) /\ Increasing(handed.knots_y)
    /\ ValidDerivatives

\* C1: round trip.  For a valid knot set (knots_x and knots_y strictly
\* increasing, knot derivatives positive) and every query x inside the stored
\* (possibly augmented) knot range, backward(forward(x)) = x, for both
\* classes.
C1_RoundTrip ==
    (/\ pc = "ready" /\ call.op = "backward" /\ call.of # None
     /\ Increasing(handed.knots_x) /\ Increasing(handed.knots_y)
     /\ Pos(handed.knots_d))
    => \A b \in 1..Len(call.of) :
          InRange(self.knots_x[b], call.of[b][1]) => call.out[b][1] = call.of[b][1]

\* a Pade22 spline with an anti-periodic left side, asked at a quarter point
\* of a reflected segment, and backward has returned the query
C1_Witness ==
    /\ pc = "ready" /\ call.op = "backward" /\ call.of # None
    /\ cls = "Pade22Spline" /\ IsAnti(args.extrap_left)
    /\ Pos(handed.knots_d) /\ handed.knots_d[1][1] = R(2)
    /\ Lt(call.of[1][1], handed.knots_x[1][1])
    /\ InRange(self.knots_x[1], call.of[1][1])
    /\ call.of[1][1][2] = 4
    /\ call.out = call.of

\* C2: knot interpolation.  For every original knot i, the first and the last
\* included, every pair of selectors and both classes, forward(knots_x[i]) =
\* knots_y[i]; stated for the knot sets whose derivatives are positive but
\* for the zero a periodic boundary needs.
C2_KnotInterpolation ==
    (pc = "ready" /\ call.op = "forward" /\ ValidKnots)
    => \A b \in 1..Len(call.x) : \A i \in 1..Len(handed.knots_x[b]) :
          call.x[b][1] = handed.knots_x[b][i] => call.out[b][1] = handed.knots_y[b][i]

\* C3: a spline with a 'periodic' side is constructed only if the derivative
\* at that side's boundary knot is zero in every row of the batch.
C3_PeriodicNeedsZero ==
    pc = "ready"
    => \A b \in 1..Len(handed.knots_d) :
          /\ args.extrap_left = "periodic" => handed.knots_d[b][1] = R(0)
          /\ args.extrap_right = "periodic" => Last(handed.knots_d[b]) = R(0)

\* C4: a selector that is none of None, 'linear', 'periodic', 'anti-periodic',
\* 'anti' raises: AugmentKnots never returns a knot set for it.
C4_UnknownSelectorRaises ==
    Returned => (args.extrap_left \in Known /\ args.extrap_right \in Known)

\* C5: extrapolate=False, or knots_x and knots_y of different shapes, raises
\* before smoothing or augmentation has run and before any attribute is
\* assigned; the extrapolate check comes first.
C5_EarlyChecks ==
    /\ (args.extrapolate = FALSE /\ pc # "check_extrapolate")
       => /\ pc = "raised"
          /\ raised = "'extrapolate == False' is not supported yet!"
          /\ ran = <<>>
          /\ self = Unassigned
    /\ (/\ args.extrapolate
        /\ Shape(args.knots_x) # Shape(args.knots_y)
        /\ pc \notin {"check_extrapolate", "check_shape"})
       => /\ pc = "raised"
          /\ raised = "x and y must have the same shape."
          /\ ran = <<>>
          /\ self = Unassigned

\* extrapolate=False together with mismatched shapes has raised
C5_Witness ==
    /\ pc = "raised"
    /\ args.extrapolate = FALSE
    /\ Shape(args.knots_x) # Shape(args.knots_y)
    /\ raised = "'extrapolate == False' is not supported yet!"

\* C6: anti-periodic reflection.  With extrap_left 'anti-periodic' or 'anti'
\* and first knot (x0, y0), for every eps > 0 with x0 + eps within the
\* original knot range, forward(x0 - eps) = 2*y0 - forward(x0 + eps); stated
\* for the knot sets whose derivatives are all positive.
C6_Reflection ==
    (/\ pc = "ready" /\ call.op = "forward" /\ IsAnti(args.extrap_left)
     /\ Pos(handed.knots_d))
    => \A b \in 1..Len(call.x) :
          LET x0  == handed.knots_x[b][1]
              y0  == handed.knots_y[b][1]
              xr  == Sub(Mul(R(2), x0), call.x[b][1])
          IN  (Lt(call.x[b][1], x0) /\ Le(xr, Last(handed.knots_x[b])))
              => call.out[b][1] =
                    Sub(Mul(R(2), y0), forward(cls, self, Column(xr))[b][1])

\* C7: linear augmentation.  A 'linear' side gets exactly one fictitious knot,
\* one unit outside the boundary, with y = y_boundary -/+ d_boundary and
\* d = d_boundary; the original knots keep their values and order; with None
\* on the other side knots_len grows by exactly 1; with None on both sides
\* the arrays are unchanged.
C7_LinearAugmentation ==
    Returned
    => \A b \in 1..Len(handed.knots_x) :
         LET x == handed.knots_x[b]
             y == handed.knots_y[b]
             d == handed.knots_d[b]
             n == Len(x)
             len == Len(loc.knots_x[b])
             l == args.extrap_left
             r == args.extrap_right
         IN  /\ l = "linear"
                => /\ loc.knots_x[b][1] = Sub(x[1], R(1))
                   /\ loc.knots_y[b][1] = Sub(y[1], d[1])
                   /\ loc.knots_d[b][1] = d[1]
                   /\ SubSeq(loc.knots_x[b], 2, n + 1) = x
                   /\ SubSeq(loc.knots_y[b], 2, n + 1) = y
                   /\ SubSeq(loc.knots_d[b], 2, n + 1) = d
             /\ r = "linear"
                => /\ loc.knots_x[b][len] = Add(x[n], R(1))
                   /\ loc.knots_y[b][len] = Add(y[n], d[n])
                   /\ loc.knots_d[b][len] = d[n]
                   /\ SubSeq(loc.knots_x[b], len - n, len - 1) = x
                   /\ SubSeq(loc.knots_y[b], len - n, len - 1) = y
                   /\ SubSeq(loc.knots_d[b], len - n, len - 1) = d
             /\ ((l = "linear" /\ r = "None") \/ (l = "None" /\ r = "linear"))
                => /\ len = n + 1
                   /\ Len(loc.knots_y[b]) = n + 1
                   /\ Len(loc.knots_d[b]) = n + 1
             /\ (l = "None" /\ r = "None") => loc = handed

\* a batch with a linear left side and None on the right, the boundary
\* derivatives not zero
C7_Witness ==
    /\ pc = "ready"
    /\ args.extrap_left = "linear" /\ args.extrap_right = "None"
    /\ Len(handed.knots_x) = BatchLen
    /\ handed.knots_d[1][1] = R(1)
    /\ self.knots_len = Len(handed.knots_x[1]) + 1
    /\ self.knots_y[1][1] = Sub(handed.knots_y[1][1], R(1))

\* the row of knots searched by the call made, and the claims of C8 about
\* one entry of it: q the query, r the raw index, i the index used
Searched(b) == IF call.op = "forward" THEN self.knots_x[b] ELSE self.knots_y[b]

Clamped(r) ==
    IF r < 1 THEN 0 ELSE IF r > self.segm_len THEN self.segm_len - 1 ELSE r - 1

CountsLess(row, q, r) == r = Cardinality({k \in 1..Len(row) : Lt(row[k], q)})

Brackets(row, q, i) ==
    /\ \A k \in 0..(self.segm_len - 1) :
          (Lt(row[k + 1], q) /\ Le(q, row[k + 2])) => i = k
    /\ Le(q, row[1]) => i = 0
    /\ Lt(Last(row), q) => i = self.segm_len - 1

\* C8 as stated: for every query the index used is clamp(r, 1, segm_len) - 1
\* with r the number of knots strictly less than the query; it lies in
\* [0, segm_len - 1], is i whenever knots[i] < query <= knots[i+1], is 0 at or
\* below the first knot and segm_len - 1 above the last.
C8_SegmentSelection ==
    (pc = "ready" /\ call.op # "none")
    => \A b \in 1..Len(call.x) :
         LET q == call.x[b][1]
             r == call.raw[b][1]
             i == call.ind[b][1]
         IN  /\ CountsLess(Searched(b), q, r)
             /\ i = Clamped(r)
             /\ i \in 0..(self.segm_len - 1)
             /\ Brackets(Searched(b), q, i)

\* C8 amended: for every query and every knot row the index used is
\* clamp(r, 1, segm_len) - 1 and lies in [0, segm_len - 1]; r is the number of
\* knots strictly less than the query, and the index brackets the query as
\* stated, when the query is not NaN and the searched row is sorted
\* (knots_x always is, knots_y is not under a 'periodic' selector).
C8_SegmentSelectionSorted ==
    (pc = "ready" /\ call.op # "none")
    => \A b \in 1..Len(call.x) :
         LET q == call.x[b][1]
             r == call.raw[b][1]
             i == call.ind[b][1]
         IN  /\ i = Clamped(r)
             /\ i \in 0..(self.segm_len - 1)
             /\ (~IsNaN(q) /\ NonDecreasing(Searched(b)))
                => (CountsLess(Searched(b), q, r) /\ Brackets(Searched(b), q, i))
             /\ call.op = "forward" => NonDecreasing(Searched(b))

\* backward has searched a sorted knots_y row of three segments or more for a
\* value inside its second segment
C8_Witness ==
    /\ pc = "ready" /\ call.op = "backward"
    /\ self.segm_len >= 3
    /\ NonDecreasing(self.knots_y[1])
    /\ Lt(self.knots_y[1][2], call.x[1][1])
    /\ Lt(call.x[1][1], self.knots_y[1][3])
    /\ call.raw[1][1] = 2
    /\ call.ind[1][1] = 1

\* C9 as stated: for strictly increasing input knots, valid derivatives and
\* every pair of known selectors, the stored knots_x and the stored knots_y
\* are strictly increasing.
C9_KnotsIncreasing ==
    (pc = "ready" /\ ValidKnots)
    => (Increasing(self.knots_x) /\ Increasing(self.knots_y))

\* C9 amended: under the same suppositions the stored knots_x is strictly
\* increasing for every pair of selectors; the stored knots_y is strictly
\* increasing when neither selector is 'periodic', and in no row when one is.
C9_KnotsIncreasingButPeriodic ==
    (pc = "ready" /\ ValidKnots)
    => /\ Increasing(self.knots_x)
       /\ IF args.extrap_left = "periodic" \/ args.extrap_right = "periodic"
          THEN \A b \in 1..Len(self.knots_y) : ~StrictInc(self.knots_y[b])
          ELSE Increasing(self.knots_y)

\* a spline of MaxKnots knots, anti-periodic on the left and linear on the
\* right, has been constructed
C9_Witness ==
    /\ pc = "ready" /\ ValidKnots
    /\ IsAnti(args.extrap_left) /\ args.extrap_right = "linear"
    /\ Len(handed.knots_x[1]) = MaxKnots
    /\ self.knots_len = 2 * MaxKnots + 1
    /\ Increasing(self.knots_y)

\* the knots of row b held when the reflection step runs: the knots handed
\* in, with the linear fiducial knot of the other side
HeldKnots(t, b) ==
    LET row == handed[t][b]
        d   == handed.knots_d[b]
        lo  == IF t = "knots_x" THEN Sub(row[1], R(1))
               ELSE IF t = "knots_y" THEN Sub(row[1], d[1]) ELSE d[1]
        hi  == IF t = "knots_x" THEN Add(Last(row), R(1))
               ELSE IF t = "knots_y" THEN Add(Last(row), Last(d)) ELSE Last(d)
    IN  (IF args.extrap_left = "linear" THEN <<lo>> ELSE <<>>)
        \o row
        \o (IF args.extrap_right = "linear" THEN <<hi>> ELSE <<>>)

\* the reflection of knot value v of array t about boundary value c
Reflected(t, sel, c, v) ==
    IF t = "knots_x" THEN Sub(Mul(R(2), c), v)
    ELSE IF t = "knots_y" THEN (IF IsAnti(sel) THEN Sub(Mul(R(2), c), v) ELSE v)
    ELSE (IF IsAnti(sel) THEN v ELSE Neg(v))

\* the knots C10 expects in array t of row b
ExpectedKnots(t, b) ==
    LET h == HeldKnots(t, b)
        n == Len(h)
        left  == IF IsReflect(args.extrap_left)
                 THEN [i \in 1..(n - 1) |->
                         Reflected(t, args.extrap_left, h[1], h[n + 1 - i])]
                 ELSE <<>>
        right == IF IsReflect(args.extrap_right)
                 THEN [i \in 1..(n - 1) |->
                         Reflected(t, args.extrap_right, h[n], h[n - i])]
                 ELSE <<>>
    IN  left \o h \o right

\* C10: reflection augmentation.  A side with 'anti-periodic', 'anti' or
\* 'periodic' gets the n - 1 knots other than its boundary knot, reversed (n
\* the knots held after a linear knot was added on the other side), with
\* x = 2*x_boundary - x; anti-periodic: y = 2*y_boundary - y, d = d;
\* periodic: y = y, d = -d; the result is [left fictitious, knots, right
\* fictitious] and the boundary knot is not duplicated.
C10_ReflectionAugmentation ==
    (Returned /\ (IsReflect(args.extrap_left) \/ IsReflect(args.extrap_right)))
    => \A t \in {"knots_x", "knots_y", "knots_d"} :
          \A b \in 1..Len(handed.knots_x) : loc[t][b] = ExpectedKnots(t, b)

\* a batch of MaxKnots knots, periodic on the left after a linear knot was
\* added on the right, has been augmented
C10_Witness ==
    /\ pc = "ready"
    /\ args.extrap_left = "periodic" /\ args.extrap_right = "linear"
    /\ Len(handed.knots_x) = BatchLen
    /\ Len(handed.knots_x[1]) = MaxKnots
    /\ self.knots_len = 2 * MaxKnots + 1
    /\ self.knots_d[1][1] = R(-1)

\* the slope of segment k of row b of the arguments, from the knots
SlopeOf(b, k) ==
    Div(Sub(args.knots_y[b][k + 1], args.knots_y[b][k]),
        Sub(args.knots_x[b][k + 1], args.knots_x[b][k]))

\* C11: Pade11 derivative smoothing.  With bc_type 'natural', for every knot
\* count n >= 2 and strictly increasing knots, the result has n entries along
\* the knot axis, its first entry is 1, each later entry is
\* d[k+1] = slope[k]^2 / d[k], so d[k]*d[k+1] = slope[k]^2 for every segment;
\* any other bc_type raises.
C11_Pade11Smoothing ==
    (call.op = "smooth_derivatives")
    => IF call.bc_type = "natural"
       THEN /\ pc = "returned" /\ raised = ""
            /\ Len(call.out) = Len(args.knots_x)
            /\ \A b \in 1..Len(args.knots_x) :
                 LET d == call.out[b]
                     n == Len(args.knots_x[b])
                 IN  /\ Len(d) = n
                     /\ d[1] = R(1)
                     /\ \A k \in 1..(n - 1) :
                          /\ d[k + 1] = Div(Mul(SlopeOf(b, k), SlopeOf(b, k)), d[k])
                          /\ Mul(d[k], d[k + 1]) = Mul(SlopeOf(b, k), SlopeOf(b, k))
       ELSE /\ pc = "raised"
            /\ raised = "bc_type is not know"
            /\ call.out = None

\* a batch of four knots (three segments, two of them in the product) whose
\* first slope is 2 has been smoothed
C11_Witness ==
    /\ call.op = "smooth_derivatives" /\ call.bc_type = "natural"
    /\ Len(args.knots_x) = BatchLen
    /\ Len(args.knots_x[1]) = 4
    /\ SlopeOf(1, 1) = R(2)
    /\ call.out[1][1] = R(1)
    /\ call.out[1][2] = R(4)

=============================================================================
